---- MODULE Spec2Model ----
(***************************************************************************)
(* Model of the composition API of src/server_main.py: the Run and         *)
(* Composition tables, the POST /v1/runs upsert (one action per commit),   *)
(* and the read endpoints.  Requests are handled concurrently, one per     *)
(* client slot; every database statement/commit is one atomic step.        *)
(* The database is the default one (DATABASE_URL = sqlite): an INTEGER     *)
(* primary key is max(pk)+1 and a negative LIMIT means "no limit".         *)
(***************************************************************************)
EXTENDS Integers, Sequences, FiniteSets, Bags, TLC

\* ---------------------------------------------------------------- bounds
\* Number of POST /v1/runs requests that enter the handler body in one run.
MaxUpserts == 3

\* The requests in flight at once: one per client.
Clients == {1, 2}

\* Largest upload, in bytes, and latest reading of the system clock.
MaxFileLen == 10
MaxClock == 3

\* ---------------------------------------------------------------- config
\* The x-api-key header of a request is <<>> when missing, <<k>> otherwise.
API_KEY == "dev-key"

\* ---------------------------------------------------------------- inputs
Ids == {"A", "B"}

PET == [material |-> "pet", percentage |-> 60]
HDPE == [material |-> "hdpe", percentage |-> 40]

\* Valid request bodies.  For id A: a one-entry composition, a composition
\* with a repeated entry and another count, an empty composition with the
\* count of the first.  For id B: the composition of A's first body.
GoodPayloads ==
    {[id |-> "A", items_processed |-> 7, composition |-> <<PET>>],
     [id |-> "A", items_processed |-> 3, composition |-> <<HDPE, HDPE>>],
     [id |-> "A", items_processed |-> 7, composition |-> <<>>],
     [id |-> "B", items_processed |-> 3, composition |-> <<PET>>]}

\* Bodies that fail validation: percentage 150, empty material, empty id,
\* negative items_processed.
BadPayloads ==
    {[id |-> "A", items_processed |-> 7,
      composition |-> <<[material |-> "pet", percentage |-> 150]>>],
     [id |-> "A", items_processed |-> 7,
      composition |-> <<PET, [material |-> "", percentage |-> 40]>>],
     [id |-> "", items_processed |-> 7, composition |-> <<PET>>],
     [id |-> "A", items_processed |-> -1, composition |-> <<PET>>]}

Payloads == GoodPayloads \cup BadPayloads

\* The (x-api-key, body) pairs of the POST requests: every body with the
\* right key; one valid and one invalid body with a wrong or missing key.
PostInputs ==
    ({<<API_KEY>>} \X Payloads)
        \cup ({<<>>, <<"bad">>} \X
                 {[id |-> "A", items_processed |-> 7, composition |-> <<PET>>],
                  [id |-> "A", items_processed |-> 7,
                   composition |->
                       <<[material |-> "pet", percentage |-> 150]>>]})

\* The limit query parameter: <<>> when absent, <<n>> otherwise.
LimitParams == {<<>>, <<-1>>, <<0>>, <<1>>}

\* Uploaded files: one of every length up to MaxFileLen.
Files ==
    {[i \in 1..n |-> IF i % 2 = 1 THEN 255 ELSE 0] : n \in 0..MaxFileLen}

\* The form fields seq and client_t0_ns of an upload: <<>> when the field
\* is missing, <<text>> otherwise; any text is accepted.
SeqFields == {<<>>, <<"1">>, <<"2">>}
ClientT0Fields == {<<>>, <<"100">>, <<"soon">>}

NoUpload == [pc |-> "idle", file |-> <<>>, seq |-> <<>>,
             client_t0_ns |-> <<>>, t1 |-> 0, status |-> 0,
             body |-> [ok |-> FALSE, seq |-> "", bytes_received |-> 0,
                       server_t1_ns |-> 0, server_t2_ns |-> 0,
                       client_t0_ns |-> ""]]

NoPayload == [id |-> "", items_processed |-> 0, composition |-> <<>>]
NoRun == [pk |-> 0, id |-> "", items_processed |-> 0]
NoBody == [id |-> "", items_processed |-> 0, composition |-> EmptyBag,
           list |-> <<>>]
NoReq == [op |-> "none", key |-> <<>>, payload |-> NoPayload,
          run_id |-> "", limit |-> <<>>]
NoResp == [status |-> 0, body |-> NoBody]

\* ---------------------------------------------------------------- state
VARIABLES
    runs,       \* table Run: set of [pk, id, items_processed]
    comps,      \* table Composition: bag of [run_fk, material, percentage]
                \*   (a row's own pk is never read; it is the row's identity)
    pc,         \* per client: the statement its request executes next
    req,        \* per client: the request being handled
    run,        \* per client: the Run object its session holds
    isNew,      \* per client: upsert_run took the "run is None" branch
    resp,       \* per client: the response, once the request has ended
    lastOk,     \* history: per id, <<>> or <<composition>> of the most
                \*   recent upsert_run that returned successfully
    created,    \* history: ids in the order their Run row was committed
    overlap,    \* history: per client, another upsert of the same id was
                \*   in flight while this one was
    upserts,    \* history: number of upserts that entered the handler body
    clock,      \* the upload service's system clock (time.time_ns)
    up          \* the upload service's request: position, inputs, t1, answer

vars == <<runs, comps, pc, req, run, isNew, resp, lastOk, created, overlap,
          upserts, clock, up>>
store == <<runs, comps>>
upload == <<clock, up>>

\* ---------------------------------------------------------------- helpers
Range(s) == {s[i] : i \in DOMAIN s}

Min(a, b) == IF a < b THEN a ELSE b

\* The multiset of the elements of a sequence.
BagOf(s) ==
    [e \in Range(s) |-> Cardinality({i \in DOMAIN s : s[i] = e})]


\* ---------------------------------------------------------------- schemas
\* Mutant: the upper bound of percentage is not checked.
ValidCompositionIn_NoUpper(c) ==
    /\ c.material # ""
    /\ c.percentage >= 0

\* CompositionIn: material min_length=1, percentage confloat(ge=0, le=100).
ValidCompositionIn(c) ==
    /\ c.material # ""
    /\ c.percentage >= 0
    /\ c.percentage <= 100

\* RunIn: id min_length=1, items_processed ge=0, composition a list of
\* CompositionIn.
ValidRunIn(payload) ==
    /\ payload.id # ""
    /\ payload.items_processed >= 0
    /\ \A i \in DOMAIN payload.composition :
           ValidCompositionIn(payload.composition[i])

\* require_api_key: TRUE when the dependency lets the request through.
require_api_key(x_api_key) == x_api_key = <<API_KEY>>

\* Mutant: the body is validated before the api key is checked.
PostOutcome_ValidateFirst(x_api_key, payload) ==
    IF ~ValidRunIn(payload) THEN 422
    ELSE IF ~require_api_key(x_api_key) THEN 401
    ELSE 0

\* What the POST /v1/runs route does with a request before the handler
\* body runs: the dependency first, then the body's validation.
\* 0 stands for "the handler body runs".
PostOutcome(x_api_key, payload) ==
    IF ~require_api_key(x_api_key) THEN 401
    ELSE IF ~ValidRunIn(payload) THEN 422
    ELSE 0

\* ---------------------------------------------------------------- store
\* select(Run).where(Run.id == id): the matching rows.
SelectRunById(rs, id) == {r \in rs : r.id = id}

\* .first() of a result: a row, or NoRun for None.
First(rows) == IF rows = {} THEN NoRun ELSE CHOOSE r \in rows : TRUE

\* The pk an insert into Run assigns.
NextPk(rs) ==
    IF rs = {} THEN 1
    ELSE (CHOOSE k \in {r.pk : r \in rs} : \A r \in rs : r.pk <= k) + 1

\* Mutant: the index on Run.id is not unique.
UniqueViolation_None(rs, id) == FALSE

\* The unique index on Run.id: the insert of a Run with this id fails at
\* commit when a Run with the id is stored.
UniqueViolation(rs, id) == SelectRunById(rs, id) # {}

NewRun(rs, payload) ==
    [pk |-> NextPk(rs), id |-> payload.id,
     items_processed |-> payload.items_processed]

\* Mutant: the row is deleted and re-inserted under a fresh pk.
UpdateCount_Reinsert(rs, pk, n) ==
    {IF r.pk = pk
         THEN [r EXCEPT !.items_processed = n, !.pk = NextPk(rs)]
         ELSE r : r \in rs}

\* Mutant: the row is deleted and not written back.
UpdateCount_Drop(rs, pk, n) == {r \in rs : r.pk # pk}

\* UPDATE run SET items_processed = n WHERE pk = pk.
UpdateCount(rs, pk, n) ==
    {IF r.pk = pk THEN [r EXCEPT !.items_processed = n] ELSE r : r \in rs}

\* Mutant: the new count is never written.
FlushCount_Never(rs, loaded, n) == rs

\* The flush of "run.items_processed = payload.items_processed": the
\* unit of work emits the UPDATE only when the value differs from the one
\* the session loaded.
FlushCount(rs, loaded, n) ==
    IF n = loaded.items_processed THEN rs ELSE UpdateCount(rs, loaded.pk, n)

\* Mutant: the delete has no WHERE clause.
DeleteCompositions_All(cs, pk) == EmptyBag

\* Mutant: the old rows are not wiped.
DeleteCompositions_Keep(cs, pk) == cs

\* DELETE FROM composition WHERE run_fk = pk.
DeleteCompositions(cs, pk) ==
    [row \in {x \in DOMAIN cs : x.run_fk # pk} |-> cs[row]]

CompositionRow(pk, c) ==
    [run_fk |-> pk, material |-> c.material, percentage |-> c.percentage]

\* Mutant: a repeated entry of payload.composition is inserted once.
InsertCompositions_Distinct(cs, pk, composition) ==
    cs (+) SetToBag({CompositionRow(pk, composition[i]) :
                         i \in DOMAIN composition})

\* One Composition row per element of payload.composition.
InsertCompositions(cs, pk, composition) ==
    cs (+) BagOf([i \in DOMAIN composition |->
                      CompositionRow(pk, composition[i])])

\* Mutant: the rows are not read.
SelectCompositions_None(cs, pk) == EmptyBag

\* select(Composition).where(Composition.run_fk == pk), as the response's
\* composition: the (material, percentage) of each row, order aside.
SelectCompositions(cs, pk) ==
    LET rows == {x \in DOMAIN cs : x.run_fk = pk}
    IN  [c \in {[material |-> x.material, percentage |-> x.percentage] :
                    x \in rows} |-> cs[CompositionRow(pk, c)]]

\* Mutant: ascending order, lowest pk first.
RECURSIVE OrderByPkDesc_Asc(_)
OrderByPkDesc_Asc(rs) ==
    IF rs = {} THEN <<>>
    ELSE LET low == CHOOSE r \in rs : \A q \in rs : r.pk <= q.pk
         IN  <<low>> \o OrderByPkDesc_Asc(rs \ {low})

\* select(Run).order_by(Run.pk.desc()): the rows, highest pk first.
RECURSIVE OrderByPkDesc(_)
OrderByPkDesc(rs) ==
    IF rs = {} THEN <<>>
    ELSE LET top == CHOOSE r \in rs : \A q \in rs : q.pk <= r.pk
         IN  <<top>> \o OrderByPkDesc(rs \ {top})

\* .limit(n): the first n rows; a negative n is no limit.
Limit(rows, n) ==
    IF n < 0 THEN rows ELSE SubSeq(rows, 1, Min(n, Len(rows)))

\* The default of list_runs' limit parameter.
DefaultLimit == 50

\* list_runs' limit parameter, the default when the caller gives none.
LimitOf(param) == IF param = <<>> THEN DefaultLimit ELSE param[1]

\* ---------------------------------------------------------------- responses
RunOut(r, composition) ==
    [status |-> 200,
     body |-> [id |-> r.id, items_processed |-> r.items_processed,
               composition |-> composition, list |-> <<>>]]

RunMeta(r) == [id |-> r.id, items_processed |-> r.items_processed]

HttpError(code) == [status |-> code, body |-> NoBody]

\* get_by_id run with no other request in between.
get_by_id(rs, cs, run_id) ==
    LET r == First(SelectRunById(rs, run_id))
    IN  IF r = NoRun THEN HttpError(404)
        ELSE RunOut(r, SelectCompositions(cs, r.pk))

\* get_latest run with no other request in between.
get_latest(rs, cs) ==
    LET rows == OrderByPkDesc(rs)
    IN  IF rows = <<>> THEN HttpError(404)
        ELSE RunOut(rows[1], SelectCompositions(cs, rows[1].pk))

\* list_runs.
list_runs(rs, param) ==
    LET rows == Limit(OrderByPkDesc(rs), LimitOf(param))
    IN  [status |-> 200,
         body |-> [NoBody EXCEPT !.list =
                       [i \in DOMAIN rows |-> RunMeta(rows[i])]]]

\* ---------------------------------------------------------------- requests
DbSteps == {"insert_run", "update_count", "delete_comps", "insert_comps"}

UpsertReq(key, payload) ==
    [NoReq EXCEPT !.op = "upsert_run", !.key = key, !.payload = payload]

\* An upsert_run of the same external id as client p's, handled by q.
SameIdUpsert(p, q, id) ==
    /\ q # p
    /\ req[q].op = "upsert_run"
    /\ req[q].payload.id = id

Finish(p, response) ==
    /\ pc' = [pc EXCEPT ![p] = "done"]
    /\ resp' = [resp EXCEPT ![p] = response]

Init ==
    /\ runs = {}
    /\ comps = EmptyBag
    /\ pc = [p \in Clients |-> "idle"]
    /\ req = [p \in Clients |-> NoReq]
    /\ run = [p \in Clients |-> NoRun]
    /\ isNew = [p \in Clients |-> FALSE]
    /\ resp = [p \in Clients |-> NoResp]
    /\ lastOk = [id \in Ids |-> <<>>]
    /\ created = <<>>
    /\ overlap = [p \in Clients |-> FALSE]
    /\ upserts = 0
    /\ clock = 0
    /\ up = NoUpload

\* POST /v1/runs: the api-key dependency, then validation of the body; a
\* request that passes both enters the handler body, whose first statement
\* is run = session.exec(select(Run).where(Run.id == payload.id)).first()
PostRuns(p, key, payload) ==
    /\ pc[p] = "idle"
    /\ req' = [req EXCEPT ![p] = UpsertReq(key, payload)]
    /\ LET outcome == PostOutcome(key, payload)
           r == First(SelectRunById(runs, payload.id))
       IN  IF outcome # 0
           THEN /\ Finish(p, HttpError(outcome))
                /\ UNCHANGED <<run, isNew, overlap, upserts>>
           ELSE /\ upserts < MaxUpserts
                /\ upserts' = upserts + 1
                /\ run' = [run EXCEPT ![p] = r]
                /\ isNew' = [isNew EXCEPT ![p] = (r = NoRun)]
                /\ pc' = [pc EXCEPT ![p] =
                             IF r = NoRun THEN "insert_run" ELSE "update_count"]
                /\ resp' = resp
                /\ overlap' =
                     [q \in Clients |->
                        IF q = p
                        THEN \E o \in Clients :
                                 /\ SameIdUpsert(p, o, payload.id)
                                 /\ pc[o] \in DbSteps
                        ELSE overlap[q]
                               \/ (/\ SameIdUpsert(p, q, payload.id)
                                   /\ pc[q] \in DbSteps \cup {"done"}
                                   /\ resp[q].status \in {0, 200})]
    /\ UNCHANGED <<runs, comps, lastOk, created>>
    /\ UNCHANGED upload

\* run = Run(...); session.add(run); session.commit(); session.refresh(run)
\* The unique index on Run.id makes the commit fail when a Run with the id
\* has been committed since the select.
UpsertInsertRun(p) ==
    /\ pc[p] = "insert_run"
    /\ IF UniqueViolation(runs, req[p].payload.id)
       THEN /\ Finish(p, HttpError(500))
            /\ UNCHANGED <<runs, run, created>>
       ELSE LET r == NewRun(runs, req[p].payload)
            IN  /\ runs' = runs \cup {r}
                /\ run' = [run EXCEPT ![p] = r]
                /\ created' = Append(created, r.id)
                /\ pc' = [pc EXCEPT ![p] = "insert_comps"]
                /\ resp' = resp
    /\ UNCHANGED <<comps, req, isNew, lastOk, overlap, upserts>>
    /\ UNCHANGED upload

\* run.items_processed = payload.items_processed; session.add(run);
\* session.commit()
UpsertUpdateCount(p) ==
    /\ pc[p] = "update_count"
    /\ runs' = FlushCount(runs, run[p], req[p].payload.items_processed)
    /\ run' = [run EXCEPT ![p].items_processed =
                   req[p].payload.items_processed]
    /\ pc' = [pc EXCEPT ![p] = "delete_comps"]
    /\ UNCHANGED <<comps, req, isNew, resp, lastOk, created, overlap, upserts>>
    /\ UNCHANGED upload

\* session.query(Composition).filter(Composition.run_fk == run.pk).delete();
\* session.commit()
UpsertDeleteComps(p) ==
    /\ pc[p] = "delete_comps"
    /\ comps' = DeleteCompositions(comps, run[p].pk)
    /\ pc' = [pc EXCEPT ![p] = "insert_comps"]
    /\ UNCHANGED <<runs, req, run, isNew, resp, lastOk, created, overlap, upserts>>
    /\ UNCHANGED upload

\* for c in payload.composition: session.add(Composition(...));
\* session.commit(); return payload
UpsertInsertComps(p) ==
    /\ pc[p] = "insert_comps"
    /\ comps' = InsertCompositions(comps, run[p].pk, req[p].payload.composition)
    /\ Finish(p, RunOut(req[p].payload, BagOf(req[p].payload.composition)))
    /\ lastOk' = [lastOk EXCEPT ![req[p].payload.id] =
                      <<req[p].payload.composition>>]
    /\ UNCHANGED <<runs, req, run, isNew, created, overlap, upserts>>
    /\ UNCHANGED upload

\* A statement or commit of upsert_run raises (storage unavailable): the
\* open transaction is rolled back, earlier commits stay, the request ends
\* as a server error.
UpsertFail(p) ==
    /\ pc[p] \in DbSteps
    /\ Finish(p, HttpError(500))
    /\ UNCHANGED <<runs, comps, req, run, isNew, lastOk, created, overlap, upserts>>
    /\ UNCHANGED upload

\* GET /v1/runs/latest, first statement: the Run with the highest pk.
GetLatestRun(p) ==
    /\ pc[p] = "idle"
    /\ req' = [req EXCEPT ![p] = [NoReq EXCEPT !.op = "get_latest"]]
    /\ LET rows == OrderByPkDesc(runs)
       IN  IF rows = <<>>
           THEN /\ Finish(p, HttpError(404))
                /\ run' = run
           ELSE /\ run' = [run EXCEPT ![p] = rows[1]]
                /\ pc' = [pc EXCEPT ![p] = "latest_comps"]
                /\ resp' = resp
    /\ UNCHANGED <<runs, comps, isNew, lastOk, created, overlap, upserts>>
    /\ UNCHANGED upload

\* GET /v1/runs/latest, second statement: the Run's Composition rows.
GetLatestComps(p) ==
    /\ pc[p] = "latest_comps"
    /\ Finish(p, RunOut(run[p], SelectCompositions(comps, run[p].pk)))
    /\ UNCHANGED <<runs, comps, req, run, isNew, lastOk, created, overlap, upserts>>
    /\ UNCHANGED upload

\* Mutant: the route depends on require_api_key like POST /v1/runs.
GetByIdRun_RequiresKey(p, run_id) ==
    /\ pc[p] = "idle"
    /\ req' = [req EXCEPT ![p] =
                  [NoReq EXCEPT !.op = "get_by_id", !.run_id = run_id]]
    /\ Finish(p, HttpError(401))
    /\ UNCHANGED <<runs, comps, run, isNew, lastOk, created, overlap, upserts>>
    /\ UNCHANGED upload

\* GET /v1/runs/{run_id}, first statement: the Run with that id.
GetByIdRun(p, run_id) ==
    /\ pc[p] = "idle"
    /\ req' = [req EXCEPT ![p] =
                  [NoReq EXCEPT !.op = "get_by_id", !.run_id = run_id]]
    /\ LET r == First(SelectRunById(runs, run_id))
       IN  IF r = NoRun
           THEN /\ Finish(p, HttpError(404))
                /\ run' = run
           ELSE /\ run' = [run EXCEPT ![p] = r]
                /\ pc' = [pc EXCEPT ![p] = "byid_comps"]
                /\ resp' = resp
    /\ UNCHANGED <<runs, comps, isNew, lastOk, created, overlap, upserts>>
    /\ UNCHANGED upload

\* GET /v1/runs/{run_id}, second statement: the Run's Composition rows.
GetByIdComps(p) ==
    /\ pc[p] = "byid_comps"
    /\ Finish(p, RunOut(run[p], SelectCompositions(comps, run[p].pk)))
    /\ UNCHANGED <<runs, comps, req, run, isNew, lastOk, created, overlap, upserts>>
    /\ UNCHANGED upload

\* GET /v1/runs?limit=N
ListRunsReq(p, param) ==
    /\ pc[p] = "idle"
    /\ req' = [req EXCEPT ![p] =
                  [NoReq EXCEPT !.op = "list_runs", !.limit = param]]
    /\ Finish(p, list_runs(runs, param))
    /\ UNCHANGED <<runs, comps, run, isNew, lastOk, created, overlap, upserts>>
    /\ UNCHANGED upload

\* GET /healthz
healthz(p) ==
    /\ pc[p] = "idle"
    /\ req' = [req EXCEPT ![p] = [NoReq EXCEPT !.op = "healthz"]]
    /\ Finish(p, [status |-> 200, body |-> NoBody])
    /\ UNCHANGED <<runs, comps, run, isNew, lastOk, created, overlap, upserts>>
    /\ UNCHANGED upload

\* The response has been sent; the client slot is free again.
Return(p) ==
    /\ pc[p] = "done"
    /\ pc' = [pc EXCEPT ![p] = "idle"]
    /\ req' = [req EXCEPT ![p] = NoReq]
    /\ run' = [run EXCEPT ![p] = NoRun]
    /\ isNew' = [isNew EXCEPT ![p] = FALSE]
    /\ resp' = [resp EXCEPT ![p] = NoResp]
    /\ overlap' = [overlap EXCEPT ![p] = FALSE]
    /\ UNCHANGED <<runs, comps, lastOk, created, upserts>>
    /\ UNCHANGED upload

Next ==
    \E p \in Clients :
        \/ \E in \in PostInputs : PostRuns(p, in[1], in[2])
        \/ UpsertInsertRun(p)
        \/ UpsertUpdateCount(p)
        \/ UpsertDeleteComps(p)
        \/ UpsertInsertComps(p)
        \/ UpsertFail(p)
        \/ GetLatestRun(p)
        \/ GetLatestComps(p)
        \/ \E run_id \in Ids : GetByIdRun(p, run_id)
        \/ GetByIdComps(p)
        \/ \E param \in LimitParams : ListRunsReq(p, param)
        \/ healthz(p)
        \/ Return(p)

Spec == Init /\ [][Next]_vars

\* ---------------------------------------------------------------- upsert_run, whole
\* upsert_run run from its select to its return with no other request in
\* between: the store it leaves.
upsert_run(rs, cs, payload) ==
    LET r == First(SelectRunById(rs, payload.id))
    IN  IF r = NoRun
        THEN LET n == NewRun(rs, payload)
             IN  [runs |-> rs \cup {n},
                  comps |-> InsertCompositions(cs, n.pk, payload.composition)]
        ELSE [runs |-> FlushCount(rs, r, payload.items_processed),
              comps |-> InsertCompositions(DeleteCompositions(cs, r.pk),
                                           r.pk, payload.composition)]

\* What the read endpoints answer on a store.
Observe(rs, cs) ==
    [by_id |-> [id \in Ids |-> get_by_id(rs, cs, id)],
     latest |-> get_latest(rs, cs),
     list |-> [param \in LimitParams |-> list_runs(rs, param)]]

\* ---------------------------------------------------------------- claims
\* The response a get_by_id gives when the store holds exactly a payload.
StoredAs(payload) == RunOut(payload, BagOf(payload.composition))

\* Client p's upsert_run has returned 200.
UpsertDone(p) ==
    /\ pc[p] = "done"
    /\ req[p].op = "upsert_run"
    /\ resp[p].status = 200

\* C1: in every reachable state, the Composition rows of each Run are
\* exactly the composition array of the most recent successful upsert of
\* its id (also between the commits of an upsert in progress).
C1_CompositionIsLastUpsert ==
    \A r \in runs :
        lastOk[r.id] # <<>> =>
            SelectCompositions(comps, r.pk) = BagOf(lastOk[r.id][1])

\* C2: once an upsert of an id that was not in the store has returned, with
\* no other upsert of that id in flight since it started, get_by_id answers
\* the submitted count and exactly the submitted composition entries.
C2_NewIdRoundTrip ==
    \A p \in Clients :
        (UpsertDone(p) /\ isNew[p] /\ ~overlap[p]) =>
            get_by_id(runs, comps, req[p].payload.id) = StoredAs(req[p].payload)

\* C2 witness: a new id was upserted alone with a repeated entry, while
\* another Run exists.
C2_Witness ==
    \E p \in Clients :
        /\ UpsertDone(p) /\ isNew[p] /\ ~overlap[p]
        /\ req[p].payload.composition = <<HDPE, HDPE>>
        /\ Cardinality(runs) = 2
        /\ get_by_id(runs, comps, req[p].payload.id).body.composition
               = (HDPE :> 2)

\* C3: when an upsert of an existing id returns, with a composition list
\* other than the previous call's, the store holds exactly the new list and
\* the new count for that id.
C3_ReplaceOnExisting ==
    [][\A p \in Clients :
          LET payload == req[p].payload
          IN  (/\ pc[p] = "insert_comps"
               /\ pc'[p] = "done"
               /\ resp'[p].status = 200
               /\ ~isNew[p]
               /\ lastOk[payload.id] # <<>>
               /\ lastOk[payload.id][1] # payload.composition)
              => get_by_id(runs', comps', payload.id) = StoredAs(payload)]_vars

\* No request is in flight.  Every reachable store is also the store of
\* such a state (UpsertFail and Return end every request in place).
Quiet == \A p \in Clients : pc[p] = "idle"

\* C4: on every store, upsert_run run twice in a row with one valid payload
\* leaves the same answers of get_by_id, get_latest and list_runs as
\* running it once.
C4_UpsertIdempotent ==
    Quiet =>
        \A payload \in GoodPayloads :
            LET once == upsert_run(runs, comps, payload)
                twice == upsert_run(once.runs, once.comps, payload)
            IN  Observe(twice.runs, twice.comps)
                    = Observe(once.runs, once.comps)

\* C4 witness: an upsert that created a Run has returned, and a second
\* upsert with the identical payload has then run and returned, on a store
\* that holds another Run too.
C4_Witness ==
    \E p, q \in Clients :
        /\ p # q
        /\ UpsertDone(p) /\ UpsertDone(q)
        /\ req[p].payload = req[q].payload
        /\ req[p].payload.composition # <<>>
        /\ isNew[q] /\ ~isNew[p] /\ ~overlap[p]
        /\ Cardinality(runs) = 2
        /\ Observe(runs, comps)
             = LET once == upsert_run(runs, comps, req[p].payload)
               IN  Observe(once.runs, once.comps)

\* C5: once the upsert that created the most recently created Run has
\* returned (an id A was created before it), with no other upsert of its id
\* in flight since, get_latest answers that Run's id, count and composition.
C5_LatestIsLastCreated ==
    \A p \in Clients :
        (/\ UpsertDone(p) /\ isNew[p] /\ ~overlap[p]
         /\ Len(created) >= 2
         /\ created[Len(created)] = req[p].payload.id)
        => get_latest(runs, comps) = StoredAs(req[p].payload)

\* C5 witness: A was upserted, then B; get_latest answers B.
C5_Witness ==
    \E p \in Clients :
        /\ UpsertDone(p) /\ isNew[p] /\ ~overlap[p]
        /\ created = <<"A", "B">>
        /\ req[p].payload.id = "B"
        /\ lastOk["A"] # <<>>
        /\ get_latest(runs, comps).body.id = "B"

\* The ids of the Runs, newest (highest pk) first.
Recency(rs) ==
    LET Newer(r) == Cardinality({q \in rs : q.pk > r.pk})
    IN  [i \in 1..Cardinality(rs) |->
            (CHOOSE r \in rs : Newer(r) = i - 1).id]

Malformed(payload) ==
    \/ payload.id = ""
    \/ payload.items_processed < 0
    \/ \E i \in DOMAIN payload.composition :
           \/ payload.composition[i].material = ""
           \/ payload.composition[i].percentage < 0
           \/ payload.composition[i].percentage > 100

\* Client p's step is the arrival of a POST /v1/runs.
PostArrives(p) == pc[p] = "idle" /\ req'[p].op = "upsert_run"

\* C7: a POST /v1/runs whose body fails validation ends at once as a client
\* error (422 with the right api key) and leaves the Run and Composition
\* tables as they were; no request with such a body is ever in the handler.
C7_InvalidRejected ==
    /\ [][\A p \in Clients :
             (PostArrives(p) /\ Malformed(req'[p].payload)) =>
                 /\ pc'[p] = "done"
                 /\ resp'[p].status \in {401, 422}
                 /\ req'[p].key = <<"dev-key">> => resp'[p].status = 422
                 /\ runs' = runs
                 /\ comps' = comps]_vars
    /\ [](\A p \in Clients :
             (req[p].op = "upsert_run" /\ Malformed(req[p].payload)) =>
                 pc[p] = "done" /\ resp[p].status \in {401, 422})

\* C7 witness: a body with percentage 150 and the right key was answered
\* 422 on a store that holds a Run and its rows.
C7_Witness ==
    \E p \in Clients :
        /\ pc[p] = "done" /\ req[p].op = "upsert_run"
        /\ req[p].key = <<"dev-key">>
        /\ req[p].payload.composition
               = <<[material |-> "pet", percentage |-> 150]>>
        /\ resp[p].status = 422
        /\ runs # {} /\ comps # EmptyBag

\* C8: a POST /v1/runs whose x-api-key header is missing or is not the
\* configured secret ends at once with 401, whether or not its body is
\* valid, and leaves the store as it was.
C8_UnauthorizedFirst ==
    [][\A p \in Clients :
          (PostArrives(p) /\ req'[p].key # <<"dev-key">>) =>
              /\ pc'[p] = "done"
              /\ resp'[p] = HttpError(401)
              /\ runs' = runs
              /\ comps' = comps]_vars

\* C8 witness: a request with no header and a body that fails validation
\* was answered 401 on a store that holds a Run.
C8_Witness ==
    \E p \in Clients :
        /\ pc[p] = "done" /\ req[p].op = "upsert_run"
        /\ req[p].key = <<>>
        /\ Malformed(req[p].payload)
        /\ resp[p].status = 401
        /\ runs # {}

\* C9: get_by_id answers 404 exactly when no Run has the id; a Run, once
\* created, stays, so get_by_id of its id is never 404 again.
C9_NotFoundIffAbsent ==
    [][/\ \A p \in Clients :
            (pc[p] = "idle" /\ req'[p].op = "get_by_id") =>
                ((pc'[p] = "done" /\ resp'[p].status = 404)
                     <=> ~ \E r \in runs : r.id = req'[p].run_id)
       /\ \A p \in Clients :
            (pc[p] = "byid_comps" /\ pc'[p] # pc[p]) => resp'[p].status = 200
       /\ \A i \in DOMAIN created :
            /\ \E r \in runs' : r.id = created[i]
            /\ get_by_id(runs', comps', created[i]).status = 200]_vars

\* C9 witness: get_by_id of A was answered 404 while only B existed; A has
\* been created since, and get_by_id of A now answers 200.
C9_Witness ==
    \E p \in Clients :
        /\ pc[p] = "done" /\ req[p].op = "get_by_id"
        /\ req[p].run_id = "A"
        /\ resp[p].status = 404
        /\ created = <<"B", "A">>
        /\ get_by_id(runs, comps, "A").status = 200

\* C10: list_runs answers (id, items_processed) summaries only: the i-th
\* one is that of the Run with the i-th highest pk, none of the N newest is
\* left out, and a non-empty answer has at most N of them, N being the
\* limit given (50 when none is).
C10_ListNewestFirstCapped ==
    [][\A p \in Clients :
          (pc[p] = "idle" /\ req'[p].op = "list_runs") =>
              LET n == IF req'[p].limit = <<>> THEN 50 ELSE req'[p].limit[1]
                  out == resp'[p].body.list
              IN  /\ resp'[p].status = 200
                  /\ \A i \in DOMAIN out :
                       \E r \in runs :
                          /\ out[i] = [id |-> r.id,
                                       items_processed |-> r.items_processed]
                          /\ Cardinality({q \in runs : q.pk > r.pk}) = i - 1
                  /\ Len(out) >= Min(n, Cardinality(runs))
                  /\ Len(out) > 0 => Len(out) <= n]_vars

\* The (material, percentage) entries of the Composition rows of Run pk.
RowsOf(cs, pk) ==
    LET entries == {[material |-> x.material, percentage |-> x.percentage] :
                        x \in {y \in DOMAIN cs : y.run_fk = pk}}
    IN  [c \in entries |->
            CopiesIn([run_fk |-> pk, material |-> c.material,
                      percentage |-> c.percentage], cs)]

\* C11: get_latest answers 404 exactly when the Run table is empty; on any
\* other store its first statement reads the Run with the highest pk, and
\* its answer is that Run with the Composition rows stored for it when the
\* second statement runs.
C11_LatestOrNotFound ==
    [][/\ \A p \in Clients :
            (pc[p] = "idle" /\ req'[p].op = "get_latest") =>
                /\ (pc'[p] = "done" /\ resp'[p].status = 404) <=> runs = {}
                /\ runs # {} =>
                     /\ pc'[p] = "latest_comps"
                     /\ run'[p] \in runs
                     /\ \A q \in runs : q.pk <= run'[p].pk
       /\ \A p \in Clients :
            (pc[p] = "latest_comps" /\ pc'[p] # pc[p]) =>
                /\ resp'[p].status = 200
                /\ resp'[p].body.id = run[p].id
                /\ resp'[p].body.items_processed = run[p].items_processed
                /\ resp'[p].body.composition = RowsOf(comps, run[p].pk)
       /\ runs # {} => get_latest(runs', comps').status = 200]_vars

\* C11 witness: one get_latest was answered 404 on the empty store; after A
\* and B were created another was answered with B and its stored rows.
C11_Witness ==
    \E p, q \in Clients :
        /\ pc[p] = "done" /\ req[p].op = "get_latest"
        /\ resp[p].status = 404
        /\ pc[q] = "done" /\ req[q].op = "get_latest"
        /\ resp[q].status = 200
        /\ created = <<"A", "B">>
        /\ resp[q].body.id = "B"
        /\ resp[q].body.composition = (PET :> 1)

\* ---------------------------------------------------------------- upload service
\* time.time_ns(): the system clock, as it reads now.
time_ns == clock

\* The system clock advances.
ClockTick ==
    /\ clock < MaxClock
    /\ clock' = clock + 1
    /\ UNCHANGED <<runs, comps, pc, req, run, isNew, resp, lastOk, created,
                   overlap, upserts, up>>

\* The system clock is set back (time.time_ns reads the wall clock, which
\* an administrator or a time service may step backwards).
ClockSetBack ==
    /\ \E earlier \in 0..(clock - 1) : clock' = earlier
    /\ UNCHANGED <<runs, comps, pc, req, run, isNew, resp, lastOk, created,
                   overlap, upserts, up>>

\* The answer of upload_image.
UploadResponse(seq, data, t1, t2, client_t0_ns) ==
    [ok |-> TRUE, seq |-> seq, bytes_received |-> Len(data),
     server_t1_ns |-> t1, server_t2_ns |-> t2,
     client_t0_ns |-> client_t0_ns]

\* POST /upload arrives.  A missing form field ends the request as 422;
\* otherwise upload_image starts: t1 = time.time_ns()
UploadArrive(file, seq, client_t0_ns) ==
    /\ up.pc = "idle"
    /\ IF seq = <<>> \/ client_t0_ns = <<>>
       THEN up' = [NoUpload EXCEPT !.pc = "done", !.file = file, !.seq = seq,
                       !.client_t0_ns = client_t0_ns, !.status = 422]
       ELSE up' = [NoUpload EXCEPT !.pc = "reading", !.file = file,
                       !.seq = seq, !.client_t0_ns = client_t0_ns,
                       !.t1 = time_ns]
    /\ UNCHANGED <<runs, comps, pc, req, run, isNew, resp, lastOk, created,
                   overlap, upserts, clock>>

\* data = await file.read(); t2 = time.time_ns(); return JSONResponse(...)
UploadRead ==
    /\ up.pc = "reading"
    /\ LET data == up.file
           t2 == time_ns
       IN  up' = [up EXCEPT !.pc = "done", !.status = 200,
                     !.body = UploadResponse(up.seq[1], data, up.t1, t2,
                                             up.client_t0_ns[1])]
    /\ UNCHANGED <<runs, comps, pc, req, run, isNew, resp, lastOk, created,
                   overlap, upserts, clock>>

\* The response has been sent.
UploadReturn ==
    /\ up.pc = "done"
    /\ up' = NoUpload
    /\ UNCHANGED <<runs, comps, pc, req, run, isNew, resp, lastOk, created,
                   overlap, upserts, clock>>

UploadNext ==
    \/ ClockTick
    \/ ClockSetBack
    \/ \E file \in Files, seq \in SeqFields, client_t0_ns \in ClientT0Fields :
           UploadArrive(file, seq, client_t0_ns)
    \/ UploadRead
    \/ UploadReturn

UploadSpec == Init /\ [][UploadNext]_vars

\* C12: every answer of upload_image has bytes_received equal to the
\* length of the uploaded file, seq and client_t0_ns as sent, and
\* server_t2_ns >= server_t1_ns; nothing of an earlier request is in it.
C12_UploadEcho ==
    (up.pc = "done" /\ up.status = 200) =>
        /\ up.body.ok
        /\ up.body.bytes_received = Len(up.file)
        /\ up.body.seq = up.seq[1]
        /\ up.body.client_t0_ns = up.client_t0_ns[1]
        /\ up.body.server_t1_ns = up.t1
        /\ up.body.server_t2_ns >= up.body.server_t1_ns

\* The part of C12 that does not rest on the clock: size and echoes.
UploadEchoesInputs ==
    (up.pc = "done" /\ up.status = 200) =>
        /\ up.body.ok
        /\ up.body.bytes_received = Len(up.file)
        /\ up.body.seq = up.seq[1]
        /\ up.body.client_t0_ns = up.client_t0_ns[1]
        /\ up.body.server_t1_ns = up.t1

\* A 10-byte upload was answered with bytes_received = 10.
UploadTenBytes ==
    /\ up.pc = "done" /\ up.status = 200
    /\ Len(up.file) = 10
    /\ up.body.bytes_received = 10

\* ---------------------------------------------------------------- claims, continued
\* C13: two upsert_run requests for one existing id interleave their
\* commits freely.  Each delete commit leaves the Run with no Composition
\* rows while its request goes on (it has not failed), and once both
\* requests have returned 200 the Run holds the rows of one payload or the
\* rows of both payloads together.
C13_InterleavedUpserts ==
    /\ [](\A p, q \in Clients :
             (/\ p # q
              /\ UpsertDone(p) /\ UpsertDone(q)
              /\ req[p].payload.id = req[q].payload.id
              /\ ~isNew[p] /\ ~isNew[q])
             => LET mine == BagOf(req[p].payload.composition)
                    other == BagOf(req[q].payload.composition)
                IN  RowsOf(comps, run[p].pk) \in {mine, other, mine (+) other})
    /\ [][\A p \in Clients :
             (pc[p] = "delete_comps" /\ pc'[p] = "insert_comps") =>
                 /\ RowsOf(comps', run[p].pk) = EmptyBag
                 /\ resp'[p].status = 0]_vars

\* C13 witness: Run A existed; two upserts of A, one with [pet] and one
\* with [hdpe, hdpe], have both returned 200 and A holds the rows of both.
C13_Witness ==
    \E p, q \in Clients :
        /\ p # q
        /\ UpsertDone(p) /\ UpsertDone(q)
        /\ ~isNew[p] /\ ~isNew[q]
        /\ req[p].payload.id = "A" /\ req[q].payload.id = "A"
        /\ req[p].payload.composition = <<PET>>
        /\ req[q].payload.composition = <<HDPE, HDPE>>
        /\ RowsOf(comps, run[p].pk) = (PET :> 1) @@ (HDPE :> 2)

\* The Run row stored under pk.
StoredRun(rs, pk) == First({r \in rs : r.pk = pk})

\* C14: an upsert_run of an existing id that fails after the count commit
\* and before the delete of the old rows ends as a server error and writes
\* nothing more: the count commit has stored the payload's items_processed
\* and left the Composition rows alone, the failure leaves both tables as
\* they are, so the Run keeps the new count next to the rows it had (those
\* of the previous upsert when it had them before).
C14_FailureLeavesStaleComposition ==
    [][\A p \in Clients :
          LET id == req[p].payload.id
              pk == run[p].pk
          IN  /\ (pc[p] = "update_count" /\ pc'[p] = "delete_comps") =>
                    /\ comps' = comps
                    /\ ~overlap[p] =>
                         StoredRun(runs', pk).items_processed =
                             req[p].payload.items_processed
              /\ (pc[p] = "delete_comps" /\ pc'[p] = "done") =>
                    /\ resp'[p].status = 500
                    /\ runs' = runs /\ comps' = comps
                    /\ ~overlap[p] =>
                         /\ StoredRun(runs', pk).id = id
                         /\ StoredRun(runs', pk).items_processed =
                                req[p].payload.items_processed
                    /\ (lastOk[id] # <<>>
                          /\ RowsOf(comps, pk) = BagOf(lastOk[id][1])) =>
                         RowsOf(comps', pk) = BagOf(lastOk'[id][1])]_vars

\* C14 witness: A was upserted with 7 items and [pet]; the next upsert of
\* A, with 3 items and [hdpe, hdpe], failed after its count commit: A has
\* 3 items and still the one pet row.
C14_Witness ==
    \E p \in Clients :
        /\ upserts = 2
        /\ pc[p] = "done" /\ req[p].op = "upsert_run" /\ resp[p].status = 500
        /\ ~isNew[p] /\ ~overlap[p]
        /\ req[p].payload.id = "A"
        /\ req[p].payload.items_processed = 3
        /\ req[p].payload.composition = <<HDPE, HDPE>>
        /\ lastOk["A"] = <<(<<PET>>)>>
        /\ StoredRun(runs, run[p].pk).items_processed = 3
        /\ RowsOf(comps, run[p].pk) = (PET :> 1)

\* C15: get_by_id and get_latest read the Run with one statement and its
\* Composition rows with a later one, with no snapshot in between: the
\* answer carries the count of the Run as the first statement read it and
\* the rows stored when the second statement runs, whatever an upsert_run
\* of the same Run has committed by then.
C15_ReadsNotIsolated ==
    [][\A p \in Clients :
          (pc[p] \in {"byid_comps", "latest_comps"} /\ pc'[p] = "done") =>
              /\ resp'[p].status = 200
              /\ resp'[p].body.items_processed = run[p].items_processed
              /\ resp'[p].body.composition = RowsOf(comps, run[p].pk)
              /\ \A q \in Clients :
                    (/\ SameIdUpsert(p, q, run[p].id)
                     /\ ~isNew[q]
                     /\ pc[q] = "insert_comps"
                     /\ ~overlap[q]
                     /\ StoredRun(runs, run[p].pk) = run[p])
                    => /\ resp'[p].body.items_processed =
                              req[q].payload.items_processed
                       /\ resp'[p].body.composition = EmptyBag]_vars

\* C15 witness: A is stored with 7 items and [pet]; an upsert of A with 3
\* items and [hdpe, hdpe] has committed its count and not yet deleted the
\* old rows; a get_by_id of A has answered 3 items with the pet row, which
\* is neither A before the upsert nor A after it.
C15_Witness ==
    \E p, q \in Clients :
        /\ upserts = 2
        /\ pc[p] = "done" /\ req[p].op = "get_by_id" /\ req[p].run_id = "A"
        /\ resp[p].status = 200
        /\ resp[p].body.items_processed = 3
        /\ resp[p].body.composition = (PET :> 1)
        /\ pc[q] = "delete_comps" /\ ~isNew[q]
        /\ req[q].payload.id = "A"
        /\ req[q].payload.items_processed = 3
        /\ req[q].payload.composition = <<HDPE, HDPE>>
        /\ lastOk["A"] = <<(<<PET>>)>>
        /\ resp[p] # StoredAs([id |-> "A", items_processed |-> 7,
                                composition |-> <<PET>>])
        /\ resp[p] # StoredAs(req[q].payload)

\* C16: at most one Run row is stored per external id.  An upsert_run that
\* found its id absent and reaches its insert when a Run with the id has
\* been committed meanwhile fails at that commit: the request ends as a
\* server error, no Run or Composition row is written by the step, and a
\* request that has ended writes nothing afterwards.
C16_OneRunPerId ==
    /\ [](\A id \in Ids : Cardinality(SelectRunById(runs, id)) <= 1)
    /\ [][\A p \in Clients :
             /\ (/\ pc[p] = "insert_run" /\ pc'[p] # pc[p]
                 /\ SelectRunById(runs, req[p].payload.id) # {})
                => /\ pc'[p] = "done"
                   /\ resp'[p].status = 500
                   /\ runs' = runs /\ comps' = comps
             /\ (pc[p] = "done" /\ \A q \in Clients \ {p} : pc'[q] = pc[q])
                => (runs' = runs /\ comps' = comps)]_vars

\* C16 witness: two upserts of the new id A both found it absent; one has
\* inserted the Run and returned 200, the other has ended as a server
\* error; A is stored once, with the rows of the request that returned 200.
C16_Witness ==
    \E p, q \in Clients :
        /\ p # q
        /\ upserts = 2
        /\ isNew[p] /\ isNew[q]
        /\ req[p].payload.id = "A" /\ req[q].payload.id = "A"
        /\ req[p].payload.composition = <<HDPE, HDPE>>
        /\ req[q].payload.composition = <<PET>>
        /\ pc[p] = "done" /\ resp[p].status = 500
        /\ UpsertDone(q)
        /\ created = <<"A">>
        /\ Cardinality(SelectRunById(runs, "A")) = 1
        /\ comps = (CompositionRow(run[q].pk, PET) :> 1)

\* C17: every Composition row's run_fk is the pk of exactly one stored
\* Run, and a commit of an upsert_run changes no Composition row of a Run
\* stored under another external id.
C17_RowsBelongToOneRun ==
    /\ [](\A row \in DOMAIN comps :
             Cardinality({r \in runs : r.pk = row.run_fk}) = 1)
    /\ [][\A p \in Clients :
             (pc[p] \in DbSteps /\ pc'[p] # pc[p]) =>
                 \A r \in runs :
                     r.id # req[p].payload.id =>
                         RowsOf(comps', r.pk) = RowsOf(comps, r.pk)]_vars

\* C17 witness: A and B are stored with rows; a second upsert of A has
\* replaced A's rows and returned 200, and B still has its one pet row.
C17_Witness ==
    \E p \in Clients :
        /\ UpsertDone(p) /\ ~isNew[p] /\ ~overlap[p]
        /\ req[p].payload.id = "A"
        /\ req[p].payload.composition = <<HDPE, HDPE>>
        /\ created = <<"A", "B">>
        /\ RowsOf(comps, run[p].pk) = (HDPE :> 2)
        /\ \E b \in SelectRunById(runs, "B") :
               /\ b.pk # run[p].pk
               /\ RowsOf(comps, b.pk) = (PET :> 1)

ReadOps == {"healthz", "get_latest", "get_by_id", "list_runs"}

\* C18: a step of healthz, get_latest, get_by_id or list_runs leaves the
\* Run and Composition tables as they are, whether it answers 200 or 404;
\* these requests carry no x-api-key and are never answered 401; every
\* step that changes a table is a commit of an upsert_run.
C18_ReadsLeaveStore ==
    [][/\ \A p \in Clients :
             (pc'[p] # pc[p] /\ (req[p].op \in ReadOps \/ req'[p].op \in ReadOps))
             => /\ runs' = runs /\ comps' = comps
                /\ pc[p] = "idle" => req'[p].key = <<>>
                /\ (pc[p] # "done" /\ pc'[p] = "done") =>
                      /\ resp'[p].status \in {200, 404}
                      /\ resp'[p].status = 404 =>
                            /\ req'[p].op \in {"get_latest", "get_by_id"}
                            /\ req'[p].op = "get_latest" => runs = {}
                            /\ req'[p].op = "get_by_id" =>
                                  SelectRunById(runs, req'[p].run_id) = {}
       /\ (runs' # runs \/ comps' # comps) =>
             \E p \in Clients :
                 /\ req[p].op = "upsert_run"
                 /\ require_api_key(req[p].key)
                 /\ pc[p] \in DbSteps /\ pc'[p] # pc[p]]_vars

\* C18 witness: on a store that holds A with its row, a get_by_id of B has
\* answered 404 and a get_by_id of A has answered 200, both without an
\* x-api-key.
C18_Witness ==
    \E p, q \in Clients :
        /\ pc[p] = "done" /\ req[p].op = "get_by_id" /\ req[p].run_id = "B"
        /\ req[p].key = <<>> /\ resp[p].status = 404
        /\ pc[q] = "done" /\ req[q].op = "get_by_id" /\ req[q].run_id = "A"
        /\ req[q].key = <<>> /\ resp[q].status = 200
        /\ resp[q].body.composition = (PET :> 1)
        /\ created = <<"A">>
        /\ comps # EmptyBag

====
